---- MODULE Spec2Model ----
(***************************************************************************)
(* Object-path codec of DebugUtils-Unreal: FPathStructure::TryParse (the   *)
(* mode-register parser of FPathStructure.cpp) and the resolver/formatter  *)
(* entry points of UWorldNavigator.cpp.                                    *)
(*                                                                         *)
(* An FString is modelled as a sequence of one-character strings, an       *)
(* object pointer as a positive integer handle, nullptr as 0.              *)
(***************************************************************************)
EXTENDS Integers, Sequences, FiniteSets, TLC

VARIABLES
    Path,          \* the FString handed to TryParse / to a Find*ByPath entry point
    graph,         \* the scene-graph snapshot of the host
    st,            \* the locals of FPathStructure::TryParse (FPathStructure.cpp:16-26)
    Result,        \* the FPathStructure out-parameter / the resolver's local record
    ErrorMessage,  \* the FString& ErrorMessage out-parameter of TryParse
    op,            \* the entry point that ran last ("" before any call)
    arg,           \* the object handle handed to GetWorldPath (0 = nullptr)
    parsed,        \* TRUE iff the last call invoked TryParse
    retOk,         \* the bool returned by TryParse
    retPtr,        \* the pointer returned by a Find*ByPath call (0 = nullptr)
    retStr,        \* the FString returned by GetWorldPath
    thrown,        \* the FString thrown by the last call (<<>> = nothing thrown)
    log            \* what the last call wrote with UE_LOG(LogTemp, Error, ...)

vars == <<Path, graph, st, Result, ErrorMessage, op, arg, parsed, retOk, retPtr,
          retStr, thrown, log>>

(***************************************************************************)
(* Bounds of the model.                                                    *)
(***************************************************************************)
MaxSteps == 2      \* component steps of a generated path
MaxActors == 2     \* actors of a generated level
MaxComps == 2      \* components (unique ids 1..MaxComps) of a generated actor

(***************************************************************************)
(* FString helpers.                                                        *)
(***************************************************************************)
Digits == {"0", "1", "2", "3", "4", "5", "6", "7", "8", "9"}

DigitValue(c) ==
    CASE c = "0" -> 0 [] c = "1" -> 1 [] c = "2" -> 2 [] c = "3" -> 3
      [] c = "4" -> 4 [] c = "5" -> 5 [] c = "6" -> 6 [] c = "7" -> 7
      [] c = "8" -> 8 [] c = "9" -> 9

\* FString comparison (operator==, operator!= against TCHAR*) ignores case.
ToLower(c) ==
    CASE c = "A" -> "a" [] c = "B" -> "b" [] c = "C" -> "c" [] c = "D" -> "d" [] c = "E" -> "e" [] c = "F" -> "f"
      [] c = "G" -> "g" [] c = "H" -> "h" [] c = "I" -> "i" [] c = "J" -> "j" [] c = "K" -> "k" [] c = "L" -> "l"
      [] c = "M" -> "m" [] c = "N" -> "n" [] c = "O" -> "o" [] c = "P" -> "p" [] c = "Q" -> "q" [] c = "R" -> "r"
      [] c = "S" -> "s" [] c = "T" -> "t" [] c = "U" -> "u" [] c = "V" -> "v" [] c = "W" -> "w" [] c = "X" -> "x"
      [] c = "Y" -> "y" [] c = "Z" -> "z"
      [] OTHER -> c

FStrEq(a, b) ==
    /\ Len(a) = Len(b)
    /\ \A k \in 1..Len(a) : ToLower(a[k]) = ToLower(b[k])

\* Two's-complement int32 arithmetic of "Result *= 10; Result += digit",
\* carried out on 16-bit halves so that no intermediate leaves 32 bits.
MulAddInt32(r, d) ==
    LET hi == IF r < 0 THEN 32768 + ((r + 2147483647 + 1) \div 65536)
                       ELSE r \div 65536
        lo == IF r < 0 THEN (r + 2147483647 + 1) % 65536 ELSE r % 65536
        l2 == lo * 10 + d
        h2 == (hi * 10 + (l2 \div 65536)) % 65536
        l3 == l2 % 65536
    IN  IF h2 >= 32768 THEN (h2 - 65536) * 65536 + l3 ELSE h2 * 65536 + l3

\* "Result *= 10; Result += d" leaves the range of int32: signed overflow,
\* which the language leaves undefined.
LeavesInt32(r, d) == r > 214748364 \/ (r = 214748364 /\ d > 7)

\* FPathStructure::TryParseInt: [ok |-> the returned bool, val |-> Result,
\* ub |-> the accumulation overflowed].  val is computed as a build that wraps
\* computes it; the callers below add the other outcome of an overflow.
RECURSIVE TryParseIntFrom(_, _, _, _)
TryParseIntFrom(NumberString, i, acc, ub) ==
    IF i > Len(NumberString) THEN [ok |-> TRUE, val |-> acc, ub |-> ub]
    ELSE IF NumberString[i] \notin Digits THEN [ok |-> FALSE, val |-> acc, ub |-> ub]
    ELSE CHOOSE r \in
            {TryParseIntFrom(NumberString, i + 1, next,
                             ub \/ LeavesInt32(acc, DigitValue(NumberString[i]))) :
                next \in {MulAddInt32(acc, DigitValue(NumberString[i]))}} : TRUE

TryParseInt(NumberString) == TryParseIntFrom(NumberString, 1, 0, FALSE)

(***************************************************************************)
(* FPathStructure::TryParse.                                               *)
(***************************************************************************)
\* enum ECurrentFillingMode
ECurrentFillingMode ==
    {"World", "Level", "LevelIdx", "Actor", "ActorIdx", "Component", "ComponentIndex"}

NoError == [msg |-> "", text |-> <<>>]

\* The locals of TryParse on entry; i is the loop index, ret is "scan" while
\* the call has not returned and "true"/"false" once it has ("trap" when the
\* process was stopped inside it).  SignedOverflow tells whether a TryParseInt
\* of this call has overflowed.
InitSt ==
    [ i |-> 0, SkipNext |-> FALSE, CurrentFillingMode |-> "World",
      WorldName |-> <<>>, LevelName |-> <<>>, LevelIndexNumber |-> 0,
      ActorName |-> <<>>, ActorIndexNumber |-> 0,
      ComponentNames |-> <<>>, ComponentIndices |-> <<>>,
      WorldSection |-> <<>>, LevelSection |-> <<>>, ActorSection |-> <<>>,
      ComponentSection |-> <<>>, LevelIndexSection |-> <<>>,
      ActorIndexSection |-> <<>>, ComponentIndexSection |-> <<>>,
      ret |-> "scan", ErrorMessage |-> NoError, SignedOverflow |-> FALSE ]

\* The tail of one loop iteration: append Path[i] to the buffer of the mode.
AppendToSection(s, c) ==
    LET m == s.CurrentFillingMode IN
    [s EXCEPT
        !.WorldSection          = IF m = "World" THEN Append(@, c) ELSE @,
        !.LevelSection          = IF m = "Level" THEN Append(@, c) ELSE @,
        !.ActorSection          = IF m = "Actor" THEN Append(@, c) ELSE @,
        !.ComponentSection      = IF m = "Component" THEN Append(@, c) ELSE @,
        !.LevelIndexSection     = IF m = "LevelIdx" THEN Append(@, c) ELSE @,
        !.ActorIndexSection     = IF m = "ActorIdx" THEN Append(@, c) ELSE @,
        !.ComponentIndexSection = IF m = "ComponentIndex" THEN Append(@, c) ELSE @]

\* The body of the for loop for the character at 0-based index s.i, without
\* the ++i: the chain of "if (...) { ...; continue; }" in source order.
LoopBody(s, P) ==
    LET i == s.i
        c == P[i + 1]
        m == s.CurrentFillingMode
        two(a, b) == i < Len(P) - 1 /\ c = a /\ P[i + 2] = b
    IN
    IF s.SkipNext THEN [s EXCEPT !.SkipNext = FALSE]
    ELSE IF c = "@" THEN
        [s EXCEPT !.WorldName = s.WorldSection, !.CurrentFillingMode = "Level"]
    ELSE IF two(":", "/") THEN
        LET r == TryParseInt(s.LevelIndexSection) IN
        IF ~r.ok THEN
            [s EXCEPT !.SignedOverflow = @ \/ r.ub, !.LevelName = s.LevelSection,
                      !.ret = "false",
                      !.ErrorMessage = [msg |-> "Failed to parse level index: %s",
                                        text |-> s.LevelIndexSection]]
        ELSE
            [s EXCEPT !.SignedOverflow = @ \/ r.ub, !.LevelName = s.LevelSection,
                      !.LevelIndexNumber = r.val,
                      !.CurrentFillingMode = "Actor", !.SkipNext = TRUE]
    ELSE IF two("-", ">") THEN
        [s EXCEPT !.CurrentFillingMode = "Component", !.SkipNext = TRUE]
    ELSE IF c = "[" /\ m = "Level" THEN [s EXCEPT !.CurrentFillingMode = "LevelIdx"]
    ELSE IF c = "]" /\ m = "LevelIdx" THEN [s EXCEPT !.CurrentFillingMode = "Level"]
    ELSE IF c = "[" /\ m = "Actor" THEN [s EXCEPT !.CurrentFillingMode = "ActorIdx"]
    ELSE IF c = "]" /\ m = "ActorIdx" THEN
        LET r == TryParseInt(s.ActorIndexSection) IN
        IF ~r.ok THEN
            [s EXCEPT !.SignedOverflow = @ \/ r.ub, !.ActorName = s.ActorSection,
                      !.ret = "false",
                      !.ErrorMessage = [msg |-> "Failed to parse actor index: %s",
                                        text |-> s.ActorIndexSection]]
        ELSE
            [s EXCEPT !.SignedOverflow = @ \/ r.ub, !.ActorName = s.ActorSection,
                      !.ActorIndexNumber = r.val,
                      !.CurrentFillingMode = "Actor"]
    ELSE IF c = "[" /\ m = "Component" THEN
        [s EXCEPT !.CurrentFillingMode = "ComponentIndex"]
    ELSE IF c = "]" /\ m = "ComponentIndex" THEN
        [s EXCEPT !.CurrentFillingMode = "Component"]
    ELSE IF c = "/" /\ m = "Component" THEN
        LET r == TryParseInt(s.ComponentIndexSection) IN
        IF ~r.ok THEN
            [s EXCEPT !.SignedOverflow = @ \/ r.ub,
                      !.ComponentNames = Append(@, s.ComponentSection),
                      !.ret = "false",
                      !.ErrorMessage = [msg |-> "Failed to parse component index: %s",
                                        text |-> s.ComponentIndexSection]]
        ELSE
            [s EXCEPT !.SignedOverflow = @ \/ r.ub,
                      !.ComponentNames = Append(@, s.ComponentSection),
                      !.ComponentIndices = Append(@, r.val),
                      !.ComponentSection = <<>>, !.ComponentIndexSection = <<>>]
    ELSE AppendToSection(s, c)

\* LoopStep with the "return false" of a failed component index left out: the
\* scan goes on after the name alone was appended.
LoopStep_NoReturnOnComponentIndex(s, P) ==
    CHOOSE r \in {IF t.ret = "scan" THEN [t EXCEPT !.i = s.i + 1]
                  ELSE IF t.ErrorMessage.msg = "Failed to parse component index: %s"
                  THEN [t EXCEPT !.ret = "scan", !.i = s.i + 1]
                  ELSE t :
                    t \in {LoopBody(s, P)}} : TRUE

\* One iteration of the for loop: the body, then ++i unless it returned.
LoopStep(s, P) ==
    CHOOSE r \in {IF t.ret = "scan" THEN [t EXCEPT !.i = s.i + 1] ELSE t :
                    t \in {LoopBody(s, P)}} : TRUE

\* What one iteration can do from locals s: t, the iteration as a build that
\* wraps on signed overflow runs it, and, when a TryParseInt of the iteration
\* overflowed, also the stop of a build that traps on it.
Trapped(s) == [s EXCEPT !.ret = "trap", !.SignedOverflow = TRUE]
IterationOutcomes(s, t) ==
    IF t.SignedOverflow /\ ~s.SignedOverflow THEN {t, Trapped(s)} ELSE {t}

\* The code after the loop: the two validations, then the writes to Result.
\* wrote tells whether the out-parameter Result was assigned; Result is the
\* value assigned (NoRecord when nothing was).
NoRecord ==
    [WorldName |-> <<>>, LevelName |-> <<>>, LevelIndex |-> 0, ActorName |-> <<>>,
     ActorIndex |-> 0, ComponentNames |-> <<>>, ComponentIndices |-> <<>>]

\* EndOfInput with the writes to Result moved above the validations.
EndOfInput_WritesFirst(s) ==
    LET written == [WorldName |-> s.WorldName, LevelName |-> s.LevelName,
                    LevelIndex |-> s.LevelIndexNumber, ActorName |-> s.ActorName,
                    ActorIndex |-> s.ActorIndexNumber,
                    ComponentNames |-> s.ComponentNames,
                    ComponentIndices |-> s.ComponentIndices]
    IN
    IF s.WorldName = <<>> \/ s.LevelName = <<>> \/ s.ActorName = <<>> THEN
        [ret |-> "false", wrote |-> TRUE, Result |-> written,
         ErrorMessage |-> [msg |-> "Missing required path components", text |-> <<>>]]
    ELSE IF Len(s.ComponentNames) # Len(s.ComponentIndices) THEN
        [ret |-> "false", wrote |-> TRUE, Result |-> written,
         ErrorMessage |-> [msg |-> "Component names and indices must be the same length",
                           text |-> <<>>]]
    ELSE
        [ret |-> "true", wrote |-> TRUE, ErrorMessage |-> s.ErrorMessage,
         Result |-> written]

EndOfInput(s) ==
    IF s.WorldName = <<>> \/ s.LevelName = <<>> \/ s.ActorName = <<>> THEN
        [ret |-> "false", wrote |-> FALSE, Result |-> NoRecord,
         ErrorMessage |-> [msg |-> "Missing required path components", text |-> <<>>]]
    ELSE IF Len(s.ComponentNames) # Len(s.ComponentIndices) THEN
        [ret |-> "false", wrote |-> FALSE, Result |-> NoRecord,
         ErrorMessage |-> [msg |-> "Component names and indices must be the same length",
                           text |-> <<>>]]
    ELSE
        [ret |-> "true", wrote |-> TRUE, ErrorMessage |-> s.ErrorMessage,
         Result |-> [WorldName |-> s.WorldName, LevelName |-> s.LevelName,
                     LevelIndex |-> s.LevelIndexNumber, ActorName |-> s.ActorName,
                     ActorIndex |-> s.ActorIndexNumber,
                     ComponentNames |-> s.ComponentNames,
                     ComponentIndices |-> s.ComponentIndices]]

\* The for loop run to its exit (i = Path.Len()) or to a return inside it.
RECURSIVE RunLoop(_, _)
RunLoop(s, P) ==
    IF s.ret # "scan" \/ s.i >= Len(P) THEN s
    ELSE CHOOSE r \in {RunLoop(next, P) : next \in {LoopStep(s, P)}} : TRUE

\* The whole call TryParse(P, ErrorMessage, Result): the locals at the return,
\* the returned bool, ErrorMessage, and what was written to Result (wrote is
\* FALSE when the caller's record is left as it was).
AfterLoop(s) ==
    IF s.ret = "false"
    THEN [st |-> s, ok |-> FALSE, ErrorMessage |-> s.ErrorMessage,
          wrote |-> FALSE, Result |-> NoRecord]
    ELSE CHOOSE r \in
            {[st |-> [s EXCEPT !.ret = e.ret, !.ErrorMessage = e.ErrorMessage],
              ok |-> e.ret = "true", ErrorMessage |-> e.ErrorMessage,
              wrote |-> e.wrote, Result |-> e.Result] : e \in {EndOfInput(s)}} : TRUE

TryParse(P) == CHOOSE r \in {AfterLoop(s) : s \in {RunLoop(InitSt, P)}} : TRUE

(***************************************************************************)
(* String literals of UWorldNavigator.cpp (TEXT("...")).                   *)
(***************************************************************************)
InvalidWorld == <<"[", "i", "n", "v", "a", "l", "i", "d", " ", "w", "o", "r", "l", "d", "]">>
InvalidLevel == <<"[", "i", "n", "v", "a", "l", "i", "d", " ", "l", "e", "v", "e", "l", "]">>
InvalidActor == <<"[", "i", "n", "v", "a", "l", "i", "d", " ", "a", "c", "t", "o", "r", "]">>
InvalidComponent == <<"[", "i", "n", "v", "a", "l", "i", "d", " ", "c", "o", "m", "p", "o", "n", "e", "n", "t", "]">>
NullComponent == <<"[", "n", "u", "l", "l", " ", "C", "o", "m", "p", "o", "n", "e", "n", "t", "]">>
NullWorld == <<"[", "n", "u", "l", "l", " ", "W", "o", "r", "l", "d", "]">>
NullLevel == <<"[", "n", "u", "l", "l", " ", "L", "e", "v", "e", "l", "]">>
NullActor == <<"[", "n", "u", "l", "l", " ", "A", "c", "t", "o", "r", "]">>

SameLengthMessage == "Component names and indices must be the same length"
OnlyOneLayerMessage == "Only one component layer should be specified"
AtLeastOneLayerMessage == "At least one component layer should be specified"
NothingThrown == ""

(***************************************************************************)
(* The host scene graph as the navigator reads it.  graph is a record:     *)
(*   WorldName        GetName() of the one loaded UWorld (handle 1)        *)
(*   PersistentLevel  World->PersistentLevel                               *)
(*   Levels           World->GetLevels(), a sequence of level handles      *)
(*   LevelName[l]     Level->GetName()                                     *)
(*   Actors[l]        Level->Actors, a sequence of actor handles           *)
(*   ActorName[a]     Actor->GetName()                                     *)
(*   ActorWorld[a]    Actor->GetWorld()  (0 = nullptr)                     *)
(*   ActorLevel[a]    Actor->GetLevel()  (0 = nullptr)                     *)
(*   Components[a]    Actor->GetComponents(), a set of component handles   *)
(*   CompName[c]      Component->GetName()                                 *)
(*   IsScene[c]       Cast<USceneComponent>(Component) != nullptr          *)
(*   AttachParent[c]  SceneComponent->GetAttachParent()  (0 = nullptr)     *)
(*   Owner[c]         Component->GetOwner()  (0 = nullptr)                 *)
(*   CompWorld[c]     Component->GetWorld()  (0 = nullptr)                 *)
(*   CompLevel[c]     Component->GetComponentLevel()  (0 = nullptr)        *)
(* A component's handle is its GetUniqueID().                              *)
(***************************************************************************)
TheWorld == 1

\* UWorldNavigator::GetAllLevelsInWorld
GetAllLevelsInWorld(World) == <<graph.PersistentLevel>> \o graph.Levels

\* UWorldNavigator::GetAllActorsInLevel
GetAllActorsInLevel(Level) == graph.Actors[Level]

\* TArray::Sort with "A.GetUniqueID() < B.GetUniqueID()"
RECURSIVE SortByUniqueID(_)
SortByUniqueID(S) ==
    IF S = {} THEN <<>>
    ELSE LET least == CHOOSE x \in S : \A y \in S : x <= y
         IN  <<least>> \o SortByUniqueID(S \ {least})

\* UWorldNavigator::GetAllComponentsInActor
GetAllComponentsInActor(Actor) == SortByUniqueID(graph.Components[Actor])

\* FindObject<UWorld>(ANY_PACKAGE, Name): the loaded worlds of that name.
FindObjectWorld(Name) ==
    IF FStrEq(graph.WorldName, Name) THEN {TheWorld} ELSE {}

\* FindObject<ULevel>(World, Name): the levels of the world of that name.
FindObjectLevel(World, Name) ==
    LET Levels == GetAllLevelsInWorld(World) IN
    {Levels[k] : k \in {j \in 1..Len(Levels) : FStrEq(graph.LevelName[Levels[j]], Name)}}

\* FindObject<AActor>(Level, Name): the actors of the level of that name.
FindObjectActor(Level, Name) ==
    LET Actors == GetAllActorsInLevel(Level) IN
    {Actors[k] : k \in {j \in 1..Len(Actors) : FStrEq(graph.ActorName[Actors[j]], Name)}}

(***************************************************************************)
(* The resolver.                                                           *)
(***************************************************************************)
\* The range-for of the resolvers from element i on, sameNumberHit = hit:
\*     if (X->GetName() != Name) continue;
\*     if (sameNumberHit == Index) { Matching = X; break; }
\*     sameNumberHit += 1;
\* Elements outside Eligible are skipped (the Cast<USceneComponent> test).
\* Returns the match (0 when the loop ends without one) and sameNumberHit.
RECURSIVE SameNameLoop(_, _, _, _, _, _, _)
SameNameLoop(Objects, NameOf, Eligible, Name, Index, i, hit) ==
    IF i > Len(Objects) THEN [Matching |-> 0, sameNumberHit |-> hit]
    ELSE IF Objects[i] \notin Eligible \/ ~FStrEq(NameOf[Objects[i]], Name) THEN
        SameNameLoop(Objects, NameOf, Eligible, Name, Index, i + 1, hit)
    ELSE IF hit = Index THEN [Matching |-> Objects[i], sameNumberHit |-> hit]
    ELSE SameNameLoop(Objects, NameOf, Eligible, Name, Index, i + 1, hit + 1)

\* The arity test of FindActorComponentByPath written as the one of
\* FindSceneComponentByPath.
ActorComponentArityViolated_ZeroOnly(R) == Len(R.ComponentNames) = 0

\* if (Result.ComponentNames.Num() != 1) throw ...
ActorComponentArityViolated(R) == Len(R.ComponentNames) # 1

\* if (Result.ComponentNames.Num() == 0) throw ...
SceneComponentArityViolated(R) == Len(R.ComponentNames) = 0

\* The loop over the component steps from step i on, MatchingComponent = mc:
\* the value the function returns after it.
RECURSIVE ComponentStepLoop(_, _, _, _, _)
ComponentStepLoop(Components, Eligible, R, i, mc) ==
    IF i > Len(R.ComponentNames) THEN mc
    ELSE LET r == SameNameLoop(Components, graph.CompName, Eligible,
                               R.ComponentNames[i], R.ComponentIndices[i], 1, 0)
             m == IF r.Matching # 0 THEN r.Matching ELSE mc
         IN  IF r.sameNumberHit < R.ComponentIndices[i] THEN 0
             ELSE ComponentStepLoop(Components, Eligible, R, i + 1, m)

\* A call that returns p without throwing.
Returns(p) == [retPtr |-> p, thrown |-> NothingThrown]
\* A call that ends in "throw FString(TEXT(msg))".
Throws(msg) == [retPtr |-> 0, thrown |-> msg]
\* The process was stopped by a trap on signed overflow inside TryParseInt.
OverflowTrap == "signed integer overflow"
TrapOutcomes(h) == IF h.st.SignedOverflow THEN {Throws(OverflowTrap)} ELSE {}

\* The part of FindActorComponentByPath / FindSceneComponentByPath after the
\* world lookup: level by occurrence, actor by occurrence, the two throws, the
\* component walk.  scene is TRUE for FindSceneComponentByPath.
ResolveComponent(World, R, scene) ==
    LET Levels == GetAllLevelsInWorld(World)
        MatchingLevel == SameNameLoop(Levels, graph.LevelName, 1..Len(graph.LevelName),
                                      R.LevelName, R.LevelIndex, 1, 0).Matching
    IN
    IF MatchingLevel = 0 THEN Returns(0)
    ELSE
    LET Actors == GetAllActorsInLevel(MatchingLevel)
        MatchingActor == SameNameLoop(Actors, graph.ActorName, 1..Len(graph.ActorName),
                                      R.ActorName, R.ActorIndex, 1, 0).Matching
    IN
    IF MatchingActor = 0 THEN Returns(0)
    ELSE
    LET Components == GetAllComponentsInActor(MatchingActor)
        Eligible == IF scene THEN {c \in 1..Len(graph.CompName) : graph.IsScene[c]}
                    ELSE 1..Len(graph.CompName)
    IN
    IF Len(R.ComponentNames) # Len(R.ComponentIndices) THEN Throws(SameLengthMessage)
    ELSE IF ~scene /\ ActorComponentArityViolated(R) THEN Throws(OnlyOneLayerMessage)
    ELSE IF scene /\ SceneComponentArityViolated(R) THEN Throws(AtLeastOneLayerMessage)
    ELSE Returns(ComponentStepLoop(Components, Eligible, R, 1, 0))

\* "FPathStructure Result;": the FStrings and TArrays are empty, the two int32
\* members have no initialiser and hold indeterminate values.
IndeterminateInt32 == {-1, 0, 1}
FreshRecords ==
    {[NoRecord EXCEPT !.LevelIndex = a, !.ActorIndex = b] :
        a \in IndeterminateInt32, b \in IndeterminateInt32}

\* The paths an entry point returns nullptr for before it parses.
RejectedBeforeParse(P, Sentinels) ==
    P = <<>> \/ \E s \in Sentinels : FStrEq(P, s)

\* The common head of the three entry points: the early returns, then
\* TryParse and the UE_LOG of its error.  wrote tells whether the local
\* record was assigned by TryParse (else it is still as declared).
ParseForResolve(P, Sentinels) ==
    IF RejectedBeforeParse(P, Sentinels)
    THEN [parsed |-> FALSE, ok |-> FALSE, st |-> InitSt, wrote |-> TRUE,
          Result |-> NoRecord, ErrorMessage |-> NoError, log |-> <<>>]
    ELSE LET tp == TryParse(P) IN
         [parsed |-> TRUE, ok |-> tp.ok, st |-> tp.st, wrote |-> tp.wrote,
          Result |-> tp.Result, ErrorMessage |-> tp.ErrorMessage,
          log |-> IF tp.ok THEN <<>> ELSE <<tp.ErrorMessage>>]

\* The local record after the head: what TryParse wrote, or the record as
\* declared, R0, when it wrote nothing.
RecordAfter(h, R0) == IF h.wrote THEN h.Result ELSE R0
DeclaredRecords(h) == IF h.wrote THEN {NoRecord} ELSE FreshRecords

\* The outcomes of FindActorComponentByPath / FindSceneComponentByPath with
\* local record R after the head h.
FindComponentOutcomes(h, R, scene) ==
    TrapOutcomes(h) \cup
    (IF ~h.parsed THEN {Returns(0)}
     ELSE IF FindObjectWorld(R.WorldName) = {} THEN {Returns(0)}
     ELSE {ResolveComponent(w, R, scene) : w \in FindObjectWorld(R.WorldName)})

\* The outcomes of FindUActorByPath: three nested FindObject lookups.
FindUActorOutcomes(h, R) ==
    TrapOutcomes(h) \cup
    (IF ~h.parsed THEN {Returns(0)}
     ELSE LET Worlds == FindObjectWorld(R.WorldName)
              Levels == UNION {FindObjectLevel(w, R.LevelName) : w \in Worlds}
              Actors == UNION {FindObjectActor(l, R.ActorName) : l \in Levels}
          IN  IF Worlds = {} \/ Levels = {} THEN {Returns(0)}
              ELSE {Returns(a) : a \in Actors}
                   \cup {Returns(0) : l \in {k \in Levels :
                                             FindObjectActor(k, R.ActorName) = {}}})

(***************************************************************************)
(* The formatter.                                                          *)
(***************************************************************************)
\* The "%d" conversion of FString::Printf.
RECURSIVE DecimalDigits(_)
DecimalDigits(n) ==
    LET d == <<"0", "1", "2", "3", "4", "5", "6", "7", "8", "9">>[(n % 10) + 1]
    IN  IF n < 10 THEN <<d>> ELSE Append(DecimalDigits(n \div 10), d)

PrintfInt(n) == IF n < 0 THEN <<"-">> \o DecimalDigits(0 - n) ELSE DecimalDigits(n)

\* The loop "for i: if (Array[i] == X) return i; return -1".
RECURSIVE IndexOfFrom(_, _, _)
IndexOfFrom(Array, X, i) ==
    IF i > Len(Array) THEN -1
    ELSE IF Array[i] = X THEN i - 1
    ELSE IndexOfFrom(Array, X, i + 1)

\* UWorldNavigator::GetIndexOfSameLevel
GetIndexOfSameLevel(Level) == IndexOfFrom(GetAllLevelsInWorld(TheWorld), Level, 1)

\* UWorldNavigator::GetIndexOfSameActor: the index i of the level whose actor
\* list holds Actor ("return i", the outer loop's index).
RECURSIVE GetIndexOfSameActorFrom(_, _, _)
GetIndexOfSameActorFrom(Levels, Actor, i) ==
    IF i > Len(Levels) THEN -1
    ELSE IF IndexOfFrom(GetAllActorsInLevel(Levels[i]), Actor, 1) # -1 THEN i - 1
    ELSE GetIndexOfSameActorFrom(Levels, Actor, i + 1)

GetIndexOfSameActor(Actor) ==
    GetIndexOfSameActorFrom(GetAllLevelsInWorld(graph.ActorWorld[Actor]), Actor, 1)

\* UWorldNavigator::GetIndexOfSameComponent (both overloads have this body)
GetIndexOfSameComponent(Component) ==
    IndexOfFrom(GetAllComponentsInActor(graph.Owner[Component]), Component, 1)

\* FString::Printf(TEXT("%s[%d]"), Name, Index)
NameIndex(Name, Index) == Name \o <<"[">> \o PrintfInt(Index) \o <<"]">>

\* UWorldNavigator::GetSceneComponentHierarchy: the links from Component up
\* to the root of its attach chain, then Algo::Reverse.
RECURSIVE HierarchyUp(_)
HierarchyUp(Component) ==
    LET link == NameIndex(graph.CompName[Component], GetIndexOfSameComponent(Component))
        ParentComponent == graph.AttachParent[Component]
    IN  IF ParentComponent = 0 THEN <<link>>
        ELSE <<link>> \o HierarchyUp(ParentComponent)

Reverse(seq) == [k \in 1..Len(seq) |-> seq[Len(seq) + 1 - k]]

GetSceneComponentHierarchy(Component) == Reverse(HierarchyUp(Component))

\* FString::Join(Array, Separator)
RECURSIVE Join(_, _)
Join(Array, Separator) ==
    IF Array = <<>> THEN <<>>
    ELSE IF Len(Array) = 1 THEN Array[1]
    ELSE Array[1] \o Separator \o Join(Tail(Array), Separator)

\* FString::Printf(TEXT("%s@%s[%d]:/%s[%d]"), ...)
ActorPathText(WorldName, LevelName, LevelIndex, ActorName, ActorIndex) ==
    WorldName \o <<"@">> \o NameIndex(LevelName, LevelIndex) \o <<":", "/">>
        \o NameIndex(ActorName, ActorIndex)

\* UWorldNavigator::GetWorldPath(AActor*)
GetWorldPathActor(Actor) ==
    IF Actor = 0 THEN InvalidActor
    ELSE IF graph.ActorWorld[Actor] = 0 THEN InvalidWorld
    ELSE IF graph.ActorLevel[Actor] = 0 THEN InvalidLevel
    ELSE ActorPathText(graph.WorldName, graph.LevelName[graph.ActorLevel[Actor]],
                       GetIndexOfSameLevel(graph.ActorLevel[Actor]),
                       graph.ActorName[Actor], GetIndexOfSameActor(Actor))

\* UWorldNavigator::GetWorldPath(USceneComponent*)
GetWorldPathSceneComponent(Component) ==
    IF Component = 0 THEN NullComponent
    ELSE IF graph.CompWorld[Component] = 0 THEN NullWorld
    ELSE IF graph.CompLevel[Component] = 0 THEN NullLevel
    ELSE IF graph.Owner[Component] = 0 THEN NullActor
    ELSE ActorPathText(graph.WorldName, graph.LevelName[graph.CompLevel[Component]],
                       GetIndexOfSameLevel(graph.CompLevel[Component]),
                       graph.ActorName[graph.Owner[Component]],
                       GetIndexOfSameActor(graph.Owner[Component]))
            \o <<"-", ">">> \o Join(GetSceneComponentHierarchy(Component), <<"/">>)

\* UWorldNavigator::GetWorldPath(UActorComponent*)
GetWorldPathActorComponent(Component) ==
    IF Component = 0 THEN InvalidComponent
    ELSE IF graph.CompWorld[Component] = 0 THEN InvalidWorld
    ELSE IF graph.CompLevel[Component] = 0 THEN InvalidLevel
    ELSE IF graph.Owner[Component] = 0 THEN InvalidActor
    ELSE IF graph.IsScene[Component] THEN GetWorldPathSceneComponent(Component)
    ELSE ActorPathText(graph.WorldName, graph.LevelName[graph.CompLevel[Component]],
                       GetIndexOfSameLevel(graph.CompLevel[Component]),
                       graph.ActorName[graph.Owner[Component]],
                       GetIndexOfSameActor(graph.Owner[Component]))
            \o <<"-", ">">>
            \o NameIndex(graph.CompName[Component], GetIndexOfSameComponent(Component))

(***************************************************************************)
(* Inputs: the scene graphs and the path strings the calls are run on.     *)
(***************************************************************************)
RECURSIVE Flatten(_)
Flatten(seqs) == IF seqs = <<>> THEN <<>> ELSE seqs[1] \o Flatten(Tail(seqs))

\* All sequences over S of length lo..hi.
SeqsOf(S, lo, hi) == UNION {[1..n -> S] : n \in lo..hi}

\* A registered scene graph: level k holds the actors named actorNames[k], in
\* that order; comps[c] = [Name, IsScene, AttachParent, Owner] is the component
\* of unique id c.  Level 1 is the persistent level, the others are streamed.
MakeGraph(worldName, levelNames, actorNames, comps) ==
    LET before(k) == Len(Flatten(SubSeq(actorNames, 1, k - 1)))
        levelOf(a) == CHOOSE k \in 1..Len(actorNames) :
                          before(k) < a /\ a <= before(k) + Len(actorNames[k])
        allActors == Flatten(actorNames)
    IN  [ WorldName       |-> worldName,
          PersistentLevel |-> 1,
          Levels          |-> [k \in 1..(Len(levelNames) - 1) |-> k + 1],
          LevelName       |-> levelNames,
          Actors          |-> [k \in 1..Len(levelNames) |->
                                  [j \in 1..Len(actorNames[k]) |-> before(k) + j]],
          ActorName       |-> allActors,
          ActorWorld      |-> [a \in 1..Len(allActors) |-> TheWorld],
          ActorLevel      |-> [a \in 1..Len(allActors) |-> levelOf(a)],
          Components      |-> [a \in 1..Len(allActors) |->
                                  {c \in 1..Len(comps) : comps[c].Owner = a}],
          CompName        |-> [c \in 1..Len(comps) |-> comps[c].Name],
          IsScene         |-> [c \in 1..Len(comps) |-> comps[c].IsScene],
          AttachParent    |-> [c \in 1..Len(comps) |-> comps[c].AttachParent],
          Owner           |-> [c \in 1..Len(comps) |-> comps[c].Owner],
          CompWorld       |-> [c \in 1..Len(comps) |-> TheWorld],
          CompLevel       |-> [c \in 1..Len(comps) |-> levelOf(comps[c].Owner)] ]

NameW == <<"W">>
NameV == <<"V">>
NameL == <<"L">>
NameM == <<"M">>
NameA == <<"A">>
NameB == <<"B">>
NameC == <<"C">>
NameD == <<"D">>
NameFoo == <<"F", "o", "o">>
NameBar == <<"B", "a", "r">>

LevelLayouts == {<<NameL>>, <<NameL, NameL>>, <<NameM, NameL>>}
ActorLayouts == SeqsOf({NameA, NameB}, 1, MaxActors)
CompKinds ==
    {[Name |-> NameC, IsScene |-> TRUE], [Name |-> NameC, IsScene |-> FALSE],
     [Name |-> NameD, IsScene |-> TRUE]}

\* The attach parents of a component list: a scene component hangs off no
\* component or off a scene component created before it.
AttachChoices(kinds) ==
    {f \in [1..Len(kinds) -> 0..Len(kinds)] :
        \A c \in 1..Len(kinds) :
            f[c] # 0 => /\ f[c] < c
                        /\ kinds[c].IsScene
                        /\ kinds[f[c]].IsScene}

\* The generated graphs: the components belong to the last actor of the
\* persistent level; a streamed level holds one actor named A.
GraphOf(levels, actors, kinds, parents) ==
    MakeGraph(NameW, levels,
              [k \in 1..Len(levels) |-> IF k = 1 THEN actors ELSE <<NameA>>],
              [c \in 1..Len(kinds) |->
                  [Name |-> kinds[c].Name, IsScene |-> kinds[c].IsScene,
                   AttachParent |-> parents[c], Owner |-> Len(actors)]])

NoParents(kinds) == [c \in 1..Len(kinds) |-> 0]

\* The level of spec scenario 7: actors [Foo, Bar, Foo, Foo], no components.
FooGraph == MakeGraph(NameW, <<NameL>>, <<<<NameFoo, NameBar, NameFoo, NameFoo>>>>, <<>>)

\* A graph whose world, level and actor all have the empty name: what the
\* lookups of a default-initialised record would find.
EmptyNameGraph ==
    MakeGraph(<<>>, <<<<>>>>, <<<<<<>>>>>>,
              <<[Name |-> NameC, IsScene |-> TRUE, AttachParent |-> 0, Owner |-> 1]>>)

\* A graph with objects that are not registered: actor 2 has no world, actor 3
\* no level; component 2 has no world, 3 no level, 4 no owner (nor do 5, 6).
DetachedGraph ==
    LET g == MakeGraph(NameW, <<NameL>>, <<<<NameA, NameB, NameB>>>>,
                       [c \in 1..6 |-> [Name |-> NameC, IsScene |-> c \in {1, 5, 6},
                                        AttachParent |-> 0, Owner |-> 1]])
    IN  [g EXCEPT !.ActorWorld = [@ EXCEPT ![2] = 0],
                  !.ActorLevel = [@ EXCEPT ![3] = 0],
                  !.Actors = [@ EXCEPT ![1] = <<1>>],
                  !.Components = [@ EXCEPT ![1] = {1}],
                  !.CompWorld = [@ EXCEPT ![2] = 0, ![5] = 0],
                  !.CompLevel = [@ EXCEPT ![3] = 0, ![6] = 0],
                  !.Owner = [@ EXCEPT ![4] = 0]]

\* The component list of the graphs that vary the levels and the actors.
TwoScenes == <<[Name |-> NameC, IsScene |-> TRUE], [Name |-> NameD, IsScene |-> TRUE]>>

FindGraphs ==
    {GraphOf(l, a, TwoScenes, NoParents(TwoScenes)) :
        l \in LevelLayouts, a \in ActorLayouts}
    \cup {GraphOf(<<NameL>>, <<NameA>>, k, NoParents(k)) :
            k \in SeqsOf(CompKinds, 0, MaxComps)}
    \cup {FooGraph}

FormatGraphs ==
    UNION {{GraphOf(l, a, k, p) : p \in AttachChoices(k)} :
              l \in LevelLayouts, a \in ActorLayouts, k \in SeqsOf(CompKinds, 0, MaxComps)}
    \cup {FooGraph, DetachedGraph}

\* The canonical surface syntax, from the texts of its fields.  steps is a
\* sequence of [Name, Index] with Index the text between the brackets.
StepText(step) == step.Name \o <<"[">> \o step.Index \o <<"]">>

PathText(world, level, levelIndex, actor, actorIndex, steps, tail) ==
    world \o <<"@">> \o level \o <<"[">> \o levelIndex \o <<"]", ":", "/">>
        \o actor \o <<"[">> \o actorIndex \o <<"]">>
        \o (IF steps = <<>> THEN <<>>
            ELSE <<"-", ">">> \o Join([k \in 1..Len(steps) |-> StepText(steps[k])],
                                      <<"/">>) \o tail)

StepChoices ==
    {[Name |-> NameC, Index |-> <<"0">>], [Name |-> NameC, Index |-> <<"1">>],
     [Name |-> NameD, Index |-> <<"0">>]}

\* Well-formed paths into the generated graphs, with and without the
\* trailing '/' that makes the parser commit the last component step.
GeneratedPaths ==
    {PathText(NameW, NameL, li, NameA, ai, steps, tail) :
        li \in {<<"0">>, <<"1">>}, ai \in {<<"0">>, <<"1">>},
        steps \in SeqsOf(StepChoices, 0, MaxSteps), tail \in {<<>>, <<"/">>}}

Scenario1 == <<"M", "y", "W", "o", "r", "l", "d", "@", "M", "a", "i", "n", "[", "0", "]", ":", "/", "P", "l", "a", "y", "e", "r", "[", "0", "]", "-", ">", "M", "e", "s", "h", "[", "0", "]">>
Scenario2 == <<"W", "@", "L", "[", "2", "]", ":", "/", "A", "[", "1", "]", "-", ">", "C", "1", "[", "0", "]", "/", "C", "2", "[", "3", "]">>
Scenario7 == <<"W", "@", "L", "[", "0", "]", ":", "/", "F", "o", "o", "[", "2", "]">>

\* Paths that are rejected or that fail to parse, and paths that miss.
OtherPaths ==
    { <<>>, InvalidWorld, InvalidLevel, InvalidActor, InvalidComponent,
      NullComponent, NullWorld, NullLevel, NullActor,
      Scenario1, Scenario2, Scenario7,
      <<"[", "I", "n", "v", "a", "l", "i", "d", " ", "W", "o", "r", "l", "d", "]">>,
      <<"[", "I", "N", "V", "A", "L", "I", "D", " ", "A", "C", "T", "O", "R", "]">>,
      <<"W", "@", "L", "[", "0", "]", ":", "/", "F", "o", "o", "[", "1", "]">>,
      <<"W", "@", "L", "[", "0", "]", ":", "/", "F", "o", "o", "[", "3", "]">>,
      <<"W", "@", "L", "[", "]", ":", "/", "A", "[", "0", "]", "-", ">", "C", "[", "0", "]">>,
      <<"W", "@", "L", "[", "x", "]", ":", "/", "A", "[", "0", "]", "-", ">", "C", "[", "0", "]">>,
      <<"@", "L", "[", "0", "]", ":", "/", "A", "[", "0", "]", "-", ">", "C", "[", "0", "]">>,
      <<"W", "@", "L", "[", "0", "]", ":", "/", "A", "[", "y", "]", "-", ">", "C", "[", "0", "]", "/">>,
      <<"W", "@", "L", "[", "0", "]", ":", "/", "A", "[", "0", "]", "-", ">", "C", "[", "z", "]", "/">>,
      <<"W", "@", "L", "[", "0", "]", ":", "/", "A", "[", "0", "]", "-", ">", "C", "[", "z", "]">>,
      <<"V", "@", "L", "[", "0", "]", ":", "/", "A", "[", "0", "]">>,
      <<"V", "@", "L", "[", "0", "]", ":", "/", "A", "[", "0", "]", "-", ">", "C", "[", "0", "]", "/">>,
      <<"W", "@", "M", "[", "0", "]", ":", "/", "A", "[", "0", "]", "-", ">", "C", "[", "0", "]", "/">>,
      <<"W", "@", "L", "[", "0", "]", ":", "/", "B", "[", "0", "]", "-", ">", "C", "[", "0", "]", "/">>,
      <<"w", "@", "l", "[", "0", "]", ":", "/", "a", "[", "0", "]", "-", ">", "c", "[", "0", "]", "/">> }

FindPaths == GeneratedPaths \cup OtherPaths

\* Strings with '@', ':/' and '->' in places the grammar does not put them.
MisplacedDelimiterPaths ==
    { <<"W", "@", "L", "[", "0", "]", ":", "/", "A", "[", "0", "]", "-", ">", "C", "@", "D", "[", "0", "]", "/">>,
      <<"W", "@", "L", "[", "0", "]", ":", "/", "A", "@", "M", "[", "1", ":", "/", "B", "[", "0", "]">>,
      <<"W", "-", ">", "C", "[", "0", "]", "/">>,
      <<"W", "@", "L", "-", ">", "C", "[", "0", "]", "/">>,
      <<"W", "@", "L", "[", "0", "]", ":", "/", "A", "[", "0", "]", "-", ">", "C", ":", "/", "D", "[", "0", "]">>,
      <<"W", "@", "L", "[", "0", "]", ":", "/", "A", "[", "0", "]", ":", "/", "B", "[", "1", "]">>,
      <<"W", "@", "L", "[", "0", "@", "M", "[", "1", "]", ":", "/", "A", "[", "0", "]">>,
      <<"W", "@", "L", "[", "0", "]", ":", "/", "A", "[", "0", "-", ">", "C", "[", "0", "]", "/">> }

\* All-digit index texts of ten digits: the largest int32, the two numbers
\* after it and after 2^32 - 1, ten nines, and a number with leading zeros.
LongIndexTexts ==
    { <<"2", "1", "4", "7", "4", "8", "3", "6", "4", "7">>,
      <<"2", "1", "4", "7", "4", "8", "3", "6", "4", "8">>,
      <<"4", "2", "9", "4", "9", "6", "7", "2", "9", "6">>,
      <<"9", "9", "9", "9", "9", "9", "9", "9", "9", "9">>,
      <<"0", "0", "0", "0", "0", "0", "0", "0", "1", "2">> }

\* Well-formed paths with a long index text as the level index, the actor
\* index or the index of a committed component step.
LongIndexPaths ==
    {PathText(NameW, NameL, t, NameA, <<"0">>, <<[Name |-> NameC, Index |-> <<"0">>]>>, <<"/">>) :
        t \in LongIndexTexts}
    \cup {PathText(NameW, NameL, <<"0">>, NameA, t, <<[Name |-> NameC, Index |-> <<"0">>]>>, <<"/">>) :
        t \in LongIndexTexts}
    \cup {PathText(NameW, NameL, <<"0">>, NameA, <<"0">>, <<[Name |-> NameC, Index |-> t]>>, <<"/">>) :
        t \in LongIndexTexts}

\* Index texts for the parser: empty, digits, leading zeros, non-digits.
IndexTexts == {<<>>, <<"0">>, <<"2">>, <<"0", "7">>, <<"x">>, <<"1", "x">>, <<"-", "1">>}

ParsePaths ==
    FindPaths
    \cup MisplacedDelimiterPaths
    \cup LongIndexPaths
    \cup {PathText(NameW, NameL, li, NameA, ai,
                   [k \in 1..n |-> [Name |-> NameC, Index |-> ci]], tail) :
            li \in IndexTexts, ai \in IndexTexts, ci \in IndexTexts,
            n \in 0..MaxSteps, tail \in {<<>>, <<"/">>}}

(***************************************************************************)
(* Initial states and actions.                                             *)
(***************************************************************************)
\* No call has been made yet.
NoCall ==
    /\ st = InitSt
    /\ Result = NoRecord
    /\ ErrorMessage = NoError
    /\ arg = 0
    /\ parsed = FALSE
    /\ retOk = FALSE
    /\ retPtr = 0
    /\ retStr = <<>>
    /\ thrown = NothingThrown
    /\ log = <<>>

\* TryParse has just been entered on Path, with an empty caller's record.
InitParse ==
    /\ Path \in ParsePaths
    /\ graph = FooGraph
    /\ op = "TryParse"
    /\ NoCall

InitFind ==
    /\ Path \in FindPaths
    /\ (graph \in FindGraphs \/ graph = EmptyNameGraph)
    /\ op = ""
    /\ NoCall

InitFormat ==
    /\ Path = <<>>
    /\ graph \in FormatGraphs
    /\ op = ""
    /\ NoCall

Init == InitParse \/ InitFind \/ InitFormat

\* One iteration of the for loop of TryParse.
ParseChar ==
    /\ op = "TryParse"
    /\ st.ret = "scan"
    /\ st.i < Len(Path)
    /\ \E t \in {LoopStep(st, Path)} : st' \in IterationOutcomes(st, t)
    /\ ErrorMessage' = st'.ErrorMessage
    /\ retOk' = FALSE
    /\ UNCHANGED <<Path, graph, Result, op, arg, parsed, retPtr, retStr, thrown, log>>

\* The loop has ended: the validations and the writes to Result.
ParseEnd ==
    /\ op = "TryParse"
    /\ st.ret = "scan"
    /\ st.i >= Len(Path)
    /\ LET e == EndOfInput(st) IN
        /\ st' = [st EXCEPT !.ret = e.ret, !.ErrorMessage = e.ErrorMessage]
        /\ Result' = IF e.wrote THEN e.Result ELSE Result
        /\ ErrorMessage' = e.ErrorMessage
        /\ retOk' = (e.ret = "true")
    /\ UNCHANGED <<Path, graph, op, arg, parsed, retPtr, retStr, thrown, log>>

\* A resolver call that went through head h, had local record R and ended in
\* outcome o.
ResolverReturn(name, h, R, o) ==
    /\ op' = name
    /\ st' = h.st
    /\ Result' = R
    /\ ErrorMessage' = h.ErrorMessage
    /\ parsed' = h.parsed
    /\ retOk' = h.ok
    /\ log' = h.log
    /\ retPtr' = o.retPtr
    /\ thrown' = o.thrown
    /\ UNCHANGED <<Path, graph, arg, retStr>>

\* UWorldNavigator::FindUActorByPath(Path)
FindUActorByPath ==
    /\ op # "TryParse"
    /\ \E h \in {ParseForResolve(Path, {InvalidWorld, InvalidLevel})} :
       \E R0 \in DeclaredRecords(h) :
       \E R \in {RecordAfter(h, R0)} :
       \E o \in FindUActorOutcomes(h, R) :
         ResolverReturn("FindUActorByPath", h, R, o)

\* UWorldNavigator::FindActorComponentByPath(Path)
FindActorComponentByPath ==
    /\ op # "TryParse"
    /\ \E h \in {ParseForResolve(Path, {InvalidWorld, InvalidLevel, InvalidActor})} :
       \E R0 \in DeclaredRecords(h) :
       \E R \in {RecordAfter(h, R0)} :
       \E o \in FindComponentOutcomes(h, R, FALSE) :
         ResolverReturn("FindActorComponentByPath", h, R, o)

\* UWorldNavigator::FindSceneComponentByPath(Path)
FindSceneComponentByPath ==
    /\ op # "TryParse"
    /\ \E h \in {ParseForResolve(Path, {InvalidWorld, InvalidLevel, InvalidActor})} :
       \E R0 \in DeclaredRecords(h) :
       \E R \in {RecordAfter(h, R0)} :
       \E o \in FindComponentOutcomes(h, R, TRUE) :
         ResolverReturn("FindSceneComponentByPath", h, R, o)

\* A formatter call on object x that returned text.
FormatterReturn(name, x, text) ==
    /\ op' = name
    /\ arg' = x
    /\ retStr' = text
    /\ st' = InitSt
    /\ Result' = NoRecord
    /\ ErrorMessage' = NoError
    /\ parsed' = FALSE
    /\ retOk' = FALSE
    /\ retPtr' = 0
    /\ thrown' = NothingThrown
    /\ log' = <<>>
    /\ UNCHANGED <<Path, graph>>

\* UWorldNavigator::GetWorldPath(AActor* Actor)
GetWorldPath_AActor ==
    /\ op # "TryParse"
    /\ \E Actor \in 0..Len(graph.ActorName) :
         FormatterReturn("GetWorldPath(AActor*)", Actor, GetWorldPathActor(Actor))

\* UWorldNavigator::GetWorldPath(UActorComponent* Component)
GetWorldPath_UActorComponent ==
    /\ op # "TryParse"
    /\ \E Component \in 0..Len(graph.CompName) :
         FormatterReturn("GetWorldPath(UActorComponent*)", Component,
                         GetWorldPathActorComponent(Component))

\* UWorldNavigator::GetWorldPath(USceneComponent* Component)
GetWorldPath_USceneComponent ==
    /\ op # "TryParse"
    /\ \E Component \in {0} \cup {c \in 1..Len(graph.CompName) : graph.IsScene[c]} :
         FormatterReturn("GetWorldPath(USceneComponent*)", Component,
                         GetWorldPathSceneComponent(Component))

NextParse == ParseChar \/ ParseEnd

NextFind == FindUActorByPath \/ FindActorComponentByPath \/ FindSceneComponentByPath

NextFormat ==
    GetWorldPath_AActor \/ GetWorldPath_UActorComponent \/ GetWorldPath_USceneComponent

Next == NextParse \/ NextFind \/ NextFormat

\* TryParse, step by step, on every path of ParsePaths.
SpecParse == InitParse /\ [][NextParse]_vars

\* The three resolver entry points on every path of FindPaths and every graph
\* of FindGraphs.
SpecFind == InitFind /\ [][NextFind]_vars

\* The three GetWorldPath overloads on every object of every graph of
\* FormatGraphs.
SpecFormat == InitFormat /\ [][NextFormat]_vars

Spec == Init /\ [][Next]_vars

(***************************************************************************)
(* What the specification says a path resolves to, stated without the      *)
(* resolver's loops.                                                       *)
(***************************************************************************)
FindOps == {"FindUActorByPath", "FindActorComponentByPath", "FindSceneComponentByPath"}

\* The (k+1)-th element of Objects whose name is Name; 0 when there are fewer.
KthNamed(Objects, NameOf, Name, k) ==
    LET hits == {p \in 1..Len(Objects) : FStrEq(NameOf[Objects[p]], Name)}
        at   == {p \in hits : Cardinality({q \in hits : q < p}) = k}
    IN  IF at = {} THEN 0 ELSE Objects[CHOOSE p \in at : TRUE]

\* The subsequence of Objects whose elements are in S.
Restrict(Objects, S) == SelectSeq(Objects, LAMBDA x : x \in S)

NamedWorld(R) == IF FStrEq(graph.WorldName, R.WorldName) THEN TheWorld ELSE 0

NamedLevel(R) ==
    IF NamedWorld(R) = 0 THEN 0
    ELSE KthNamed(<<graph.PersistentLevel>> \o graph.Levels, graph.LevelName,
                  R.LevelName, R.LevelIndex)

NamedActor(R) ==
    IF NamedLevel(R) = 0 THEN 0
    ELSE KthNamed(graph.Actors[NamedLevel(R)], graph.ActorName, R.ActorName, R.ActorIndex)

\* The components of Actor in ascending unique-id order.
ComponentsInIdOrder(Actor) ==
    LET S == graph.Components[Actor]
    IN  [k \in 1..Cardinality(S) |->
            CHOOSE c \in S : Cardinality({d \in S : d < c}) = k - 1]

SceneComponentsInIdOrder(Actor) ==
    Restrict(ComponentsInIdOrder(Actor), {c \in 1..Len(graph.IsScene) : graph.IsScene[c]})

\* The number of components of c's owner that have c's name and precede c in
\* unique-id order.
OccurrenceIndex(c) ==
    Cardinality({d \in graph.Components[graph.Owner[c]] :
                    d < c /\ FStrEq(graph.CompName[d], graph.CompName[c])})

Last(seq) == seq[Len(seq)]

(***************************************************************************)
(* The claims.                                                             *)
(***************************************************************************)
TryParseReturned == op = "TryParse" /\ st.ret \in {"true", "false"}

\* C1: when a path parses successfully and the input ends in mode Component
\* with a non-empty Component buffer, the last entry of ComponentNames /
\* ComponentIndices is that pending (name, index) pair; spec scenario 2 yields
\* the steps (C1,0),(C2,3) and scenario 1 yields (Mesh,0).
C1_EndOfInputCommitsPendingStep ==
    /\ (TryParseReturned /\ retOk /\ st.CurrentFillingMode = "Component"
            /\ st.ComponentSection # <<>>)
       => /\ Result.ComponentNames # <<>>
          /\ Last(Result.ComponentNames) = st.ComponentSection
          /\ Last(Result.ComponentIndices) = TryParseInt(st.ComponentIndexSection).val
    /\ (TryParseReturned /\ Path = Scenario2)
       => /\ retOk
          /\ Result.ComponentNames = <<<<"C", "1">>, <<"C", "2">>>>
          /\ Result.ComponentIndices = <<0, 3>>
    /\ (TryParseReturned /\ Path = Scenario1)
       => /\ retOk
          /\ Result.ComponentNames = <<<<"M", "e", "s", "h">>>>
          /\ Result.ComponentIndices = <<0>>

\* A '[' of P whose text up to the next ']' holds a character that is no digit.
NonDigitInBrackets(P) ==
    \E i \in 1..Len(P) : \E j \in (i + 1)..Len(P) :
        /\ P[i] = "["
        /\ P[j] = "]"
        /\ \A k \in (i + 1)..(j - 1) : P[k] # "]"
        /\ \E k \in (i + 1)..(j - 1) : P[k] \notin Digits

\* C2: TryParse returns false for every path with a non-digit between a '['
\* and its closing ']'.
C2_NonDigitIndexFails ==
    (TryParseReturned /\ NonDigitInBrackets(Path)) => ~retOk

\* C3: on each of the three sentinel strings each of the three entry points
\* returns nullptr without invoking the parser, logging or throwing.
C3_SentinelsAreSilent ==
    (op \in FindOps /\ Path \in {InvalidWorld, InvalidLevel, InvalidActor})
    => /\ retPtr = 0
       /\ ~parsed
       /\ log = <<>>
       /\ thrown = NothingThrown

\* C4: for a path W@L[i]:/N[k] whose world and level resolve, FindUActorByPath
\* returns the (k+1)-th actor named N of the level, nullptr when there are
\* fewer than k+1.
C4_FindActorHonoursIndex ==
    (op = "FindUActorByPath" /\ parsed /\ retOk /\ Result.ComponentNames = <<>>
        /\ st.CurrentFillingMode = "Actor" /\ NamedLevel(Result) # 0)
    => retPtr = NamedActor(Result)

\* The path is canonical with exactly one component step and no trailing '/':
\* the scan ended in mode Component with that step pending and none committed.
OneStepPending ==
    /\ parsed
    /\ st.ret = "true"
    /\ st.CurrentFillingMode = "Component"
    /\ st.ComponentNames = <<>>
    /\ st.ComponentSection # <<>>
    /\ Path \in GeneratedPaths

\* C5: for a canonical one-step path whose world, level and actor resolve,
\* FindActorComponentByPath returns the (k+1)-th component named N of the
\* actor in unique-id order (nullptr when there are fewer) and does not throw.
C5_OneStepPathResolves ==
    (op = "FindActorComponentByPath" /\ OneStepPending /\ NamedActor(Result) # 0)
    => /\ thrown = NothingThrown
       /\ retPtr = KthNamed(ComponentsInIdOrder(NamedActor(Result)), graph.CompName,
                            st.ComponentSection,
                            TryParseInt(st.ComponentIndexSection).val)

\* C6: FindSceneComponentByPath returns nullptr whenever some step (N_s, k_s)
\* of the parsed record has fewer than k_s + 1 scene components named N_s in
\* the owning actor.
C6_SceneWalkMissIsAbsent ==
    (op = "FindSceneComponentByPath" /\ parsed /\ retOk /\ NamedActor(Result) # 0
        /\ \E s \in 1..Len(Result.ComponentNames) :
              KthNamed(SceneComponentsInIdOrder(NamedActor(Result)), graph.CompName,
                       Result.ComponentNames[s], Result.ComponentIndices[s]) = 0)
    => (retPtr = 0 /\ thrown = NothingThrown)

\* C7 as stated: a successfully parsed record with zero or more than one step
\* makes FindActorComponentByPath throw, one with zero steps makes
\* FindSceneComponentByPath throw, whether or not world, level and actor exist.
C7_ArityAlwaysFatal ==
    /\ (op = "FindActorComponentByPath" /\ parsed /\ retOk
            /\ Len(Result.ComponentNames) # 1)
       => thrown # NothingThrown
    /\ (op = "FindSceneComponentByPath" /\ parsed /\ retOk
            /\ Len(Result.ComponentNames) = 0)
       => thrown # NothingThrown

\* C7 amended: the arity violation is thrown exactly when the named world,
\* level and actor resolve; when one of them does not, the call returns
\* nullptr and throws nothing.
C7_ArityFatalOnceActorResolved ==
    /\ (op = "FindActorComponentByPath" /\ parsed /\ retOk
            /\ Len(Result.ComponentNames) # 1)
       => IF NamedActor(Result) # 0
          THEN thrown = OnlyOneLayerMessage
          ELSE thrown = NothingThrown /\ retPtr = 0
    /\ (op = "FindSceneComponentByPath" /\ parsed /\ retOk
            /\ Len(Result.ComponentNames) = 0)
       => IF NamedActor(Result) # 0
          THEN thrown = AtLeastOneLayerMessage
          ELSE thrown = NothingThrown /\ retPtr = 0

\* A two-step record on a resolved actor made FindActorComponentByPath throw.
C7_Witness ==
    /\ op = "FindActorComponentByPath"
    /\ retOk
    /\ Len(Result.ComponentNames) = 2
    /\ NamedActor(Result) # 0
    /\ thrown = OnlyOneLayerMessage

\* The record is as declared: empty strings and arrays.
RecordUntouched ==
    /\ Result.WorldName = <<>>
    /\ Result.LevelName = <<>>
    /\ Result.ActorName = <<>>
    /\ Result.ComponentNames = <<>>
    /\ Result.ComponentIndices = <<>>

\* C8 as stated: on every non-empty path on which TryParse returns false,
\* each entry point logs the error, leaves the record untouched and, no world
\* having the empty name, returns nullptr without throwing.
C8_ParseErrorsLoggedAndSwallowed ==
    (op \in FindOps /\ Path # <<>> /\ ~TryParse(Path).ok)
    => /\ log = <<TryParse(Path).ErrorMessage>>
       /\ RecordUntouched
       /\ (graph.WorldName # <<>> => (retPtr = 0 /\ thrown = NothingThrown))

\* The sentinel strings the entry point returns on before it parses.
SentinelsOf(entry) ==
    IF entry = "FindUActorByPath" THEN {InvalidWorld, InvalidLevel}
    ELSE {InvalidWorld, InvalidLevel, InvalidActor}

\* C8 amended: the same, except that on the sentinel strings the entry point
\* rejects before parsing (compared ignoring case) it neither parses nor logs.
C8_ParseErrorsSwallowed ==
    (op \in FindOps /\ Path # <<>> /\ ~TryParse(Path).ok)
    => /\ IF \E sentinel \in SentinelsOf(op) : FStrEq(Path, sentinel)
          THEN ~parsed /\ log = <<>>
          ELSE parsed /\ ~retOk /\ log = <<TryParse(Path).ErrorMessage>>
       /\ RecordUntouched
       /\ (graph.WorldName # <<>> => (retPtr = 0 /\ thrown = NothingThrown))

\* FindSceneComponentByPath ran on "[null World]", logged the parse error and
\* returned nullptr.
C8_Witness ==
    /\ op = "FindSceneComponentByPath"
    /\ Path = NullWorld
    /\ parsed
    /\ ~retOk
    /\ log = <<[msg |-> "Missing required path components", text |-> <<>>]>>
    /\ retPtr = 0

\* The component was handed to GetWorldPath with world, level and owner set.
ComponentFormatted ==
    /\ op \in {"GetWorldPath(UActorComponent*)", "GetWorldPath(USceneComponent*)"}
    /\ arg # 0
    /\ graph.CompWorld[arg] # 0
    /\ graph.CompLevel[arg] # 0
    /\ graph.Owner[arg] # 0

\* The attach chain of scene component c, root first, each link with its
\* occurrence index.
RECURSIVE OccurrenceChain(_)
OccurrenceChain(c) ==
    (IF graph.AttachParent[c] = 0 THEN <<>> ELSE OccurrenceChain(graph.AttachParent[c]))
        \o <<NameIndex(graph.CompName[c], OccurrenceIndex(c))>>

\* C9: the index GetWorldPath writes after a component's name (and after each
\* link of a scene component's attach chain) is its occurrence index among
\* the same-named components of the owning actor in unique-id order.
C9_ComponentIndexIsOccurrenceIndex ==
    ComponentFormatted
    => retStr = GetWorldPathActor(graph.Owner[arg]) \o <<"-", ">">>
                  \o (IF graph.IsScene[arg] THEN Join(OccurrenceChain(arg), <<"/">>)
                      ELSE NameIndex(graph.CompName[arg], OccurrenceIndex(arg)))

\* C10: two distinct actors that both have a world and a level have different
\* paths.
C10_ActorPathsAreUnique ==
    (op = "GetWorldPath(AActor*)" /\ arg # 0
        /\ graph.ActorWorld[arg] # 0 /\ graph.ActorLevel[arg] # 0)
    => \A other \in 1..Len(graph.ActorName) :
          (other # arg /\ graph.ActorWorld[other] # 0 /\ graph.ActorLevel[other] # 0)
          => retStr # GetWorldPathActor(other)

\* The transitions of the mode register that the grammar's table lists.
ModeTable ==
    { <<"World", "Level">>, <<"Level", "LevelIdx">>, <<"LevelIdx", "Level">>,
      <<"Level", "Actor">>, <<"Actor", "ActorIdx">>, <<"ActorIdx", "Actor">>,
      <<"Actor", "Component">>, <<"Component", "ComponentIndex">>,
      <<"ComponentIndex", "Component">> }

\* The scan is about to examine the character at st.i; TwoAt(a, b) holds when
\* that character is a and the next one is b.
Examining == op = "TryParse" /\ st.ret = "scan" /\ st.i < Len(Path) /\ ~st.SkipNext
TwoAt(a, b) == st.i + 2 <= Len(Path) /\ Path[st.i + 1] = a /\ Path[st.i + 2] = b

\* C11: every change of the mode register is a transition of the table, and
\* outside their allowed mode '@' (World), ':/' (Level) and '->' (Actor)
\* leave the mode and the committed world name, level name and level index
\* as they were.
C11_ModeTransitionsGuarded ==
    [][Examining =>
        /\ st'.CurrentFillingMode # st.CurrentFillingMode
            => <<st.CurrentFillingMode, st'.CurrentFillingMode>> \in ModeTable
        /\ (Path[st.i + 1] = "@" /\ st.CurrentFillingMode # "World")
            => /\ st'.CurrentFillingMode = st.CurrentFillingMode
               /\ st'.WorldName = st.WorldName
        /\ (TwoAt(":", "/") /\ st.CurrentFillingMode # "Level")
            => /\ st'.CurrentFillingMode = st.CurrentFillingMode
               /\ st'.LevelName = st.LevelName
               /\ st'.LevelIndexNumber = st.LevelIndexNumber
        /\ (TwoAt("-", ">") /\ st.CurrentFillingMode # "Actor")
            => st'.CurrentFillingMode = st.CurrentFillingMode
      ]_vars

\* The decimal numeral of the number an all-digit text writes: the text
\* without its leading zeros, "0" when nothing is left.
Numeral(text) ==
    LET nonzero == {k \in 1..Len(text) : text[k] # "0"} IN
    IF nonzero = {} THEN <<"0">>
    ELSE SubSeq(text, CHOOSE k \in nonzero : \A j \in nonzero : k <= j, Len(text))

AllDigits(text) == \A k \in 1..Len(text) : text[k] \in Digits

\* The int32 n is non-negative and is the number that text writes.
IsValueOf(n, text) == n >= 0 /\ DecimalDigits(n) = Numeral(text)

\* C12: whenever the scan turns an all-digit index text into an index (at
\* ':/', at the ']' of an actor index, at the '/' of a component step) the
\* int32 it stores is non-negative and equal to the number written, and the
\* indices of a record returned with true are non-negative.
C12_IndexIsTheNumberWritten ==
    [][(Examining /\ st'.ret = "scan" /\ Path[st.i + 1] # "@") =>
        /\ (TwoAt(":", "/") /\ AllDigits(st.LevelIndexSection))
            => IsValueOf(st'.LevelIndexNumber, st.LevelIndexSection)
        /\ (Path[st.i + 1] = "]" /\ st.CurrentFillingMode = "ActorIdx"
                /\ AllDigits(st.ActorIndexSection))
            => IsValueOf(st'.ActorIndexNumber, st.ActorIndexSection)
        /\ (Path[st.i + 1] = "/" /\ st.CurrentFillingMode = "Component"
                /\ AllDigits(st.ComponentIndexSection))
            => /\ Len(st'.ComponentIndices) = Len(st.ComponentIndices) + 1
               /\ IsValueOf(Last(st'.ComponentIndices), st.ComponentIndexSection)
      ]_vars

\* The locals and the caller's record hold as many names as indices.
SameLength(r) == Len(r.ComponentNames) = Len(r.ComponentIndices)

\* No call has ended with the same-length error, returned or thrown.
NoSameLengthError ==
    /\ ErrorMessage.msg # SameLengthMessage
    /\ st.ErrorMessage.msg # SameLengthMessage
    /\ thrown # SameLengthMessage

\* C13: in every state of a scan the committed component names are as many
\* as the committed component indices, TryParse never ends with the
\* same-length error, and no record it leaves to a resolver can raise it.
C13_NamesAndIndicesSameLength ==
    /\ SameLength(st)
    /\ SameLength(Result)
    /\ NoSameLengthError

\* C13 amended: the same at every loop head and at the return of true; at a
\* return of false the names are as many as the indices or one more, one
\* more only when the return is the one of a failed component index.
C13_SameLengthUntilFailedIndex ==
    /\ st.ret # "false" => SameLength(st)
    /\ st.ret = "false" =>
        \/ SameLength(st)
        \/ /\ Len(st.ComponentNames) = Len(st.ComponentIndices) + 1
           /\ st.ErrorMessage.msg = "Failed to parse component index: %s"
    /\ SameLength(Result)
    /\ NoSameLengthError

\* TryParse has returned true on a path of two component steps, both committed.
C13_Witness ==
    /\ op = "TryParse"
    /\ st.ret = "true"
    /\ Len(Result.ComponentNames) = 2
    /\ Len(Result.ComponentIndices) = 2

====
